---- MODULE Spec2Model ----
(***************************************************************************)
(* Two tic-tac-toe programs: the rule-based player of 2024/ttt_optimal.c   *)
(* and the learning player of 1973/ttt_reconstructed.c.                    *)
(*                                                                         *)
(* One set of variables serves both programs.  `board` is the global      *)
(* board of whichever program a specification runs: for the 2024 program   *)
(* a function on 0..9 of characters, for the 1973 program a function on    *)
(* 0..8 of the cell values 0, 1, 2.                                        *)
(***************************************************************************)
EXTENDS Integers, Sequences, FiniteSets, TLC

VARIABLES
    board,          \* the global board of the running program
    pc,             \* position in main, or call/returned for a single function
    turn,           \* 2024 main: loop counter
    human,          \* 2024 main: the human's mark
    computer,       \* 2024 main: the computer's mark
    knowledge,      \* 1973: the table of learned positions (used prefix)
    nknowledge,     \* 1973: number of entries
    move_history,   \* 1973: moves of this game, indices 0..8
    nmoves,         \* 1973: number of moves
    outcome,        \* 1973 main: the argument of the pending update_knowledge
    ret,            \* value returned by the last call made (a move, a count, a code)
    rounds,         \* 1973 main: rounds started in this session
    prev_history,   \* history record: the moves of the previous round
    prev_outcome,   \* history record: the outcome of the previous round
    file,           \* 1973: the bytes of the knowledge file ttt.k
    fd,             \* 1973 load/save: 3 while the file is open, else -1
    save_i          \* 1973 save_knowledge: the loop index i

vars == <<board, pc, turn, human, computer, knowledge, nknowledge,
          move_history, nmoves, outcome, ret, rounds, prev_history,
          prev_outcome, file, fd, save_i>>

vars73 == <<knowledge, nknowledge, move_history, nmoves, outcome, rounds,
            prev_history, prev_outcome, file, fd, save_i>>

vars24 == <<turn, human, computer>>

Min(S) == CHOOSE x \in S : \A y \in S : x <= y

Max(S) == CHOOSE x \in S : \A y \in S : x >= y

(***************************************************************************)
(* 2024/ttt_optimal.c                                                      *)
(***************************************************************************)

\* The character that ends a C string literal.
NUL == "NUL"

\* static char board[10] = "         ": the literal holds nine blanks, which
\* fill indices 0..8; index 9 receives the terminating NUL.
InitBoard24 == [i \in 0..9 |-> IF i = 9 THEN NUL ELSE " "]

wins == << <<1, 2, 3>>, <<4, 5, 6>>, <<7, 8, 9>>,
           <<1, 4, 7>>, <<2, 5, 8>>, <<3, 6, 9>>,
           <<1, 5, 9>>, <<3, 5, 7>> >>

check_win(b, player) ==
    \E i \in 1..8 : /\ b[wins[i][1]] = player
                    /\ b[wins[i][2]] = player
                    /\ b[wins[i][3]] = player

\* The inner loop of find_winning_move for line i: count of the player's
\* cells, and the last blank position of the line (0 if none).
LineCount(b, i, player) == Cardinality({j \in 1..3 : b[wins[i][j]] = player})

LineEmpty(b, i, player) ==
    LET S == {j \in 1..3 : b[wins[i][j]] # player /\ b[wins[i][j]] = " "}
    IN  IF S = {} THEN 0 ELSE wins[i][Max(S)]

find_winning_move(b, player) ==
    LET H == {i \in 1..8 : LineCount(b, i, player) = 2 /\ LineEmpty(b, i, player) > 0}
    IN  IF H = {} THEN 0 ELSE LineEmpty(b, Min(H), player)

corners == <<1, 3, 7, 9>>

opposite == <<9, 7, 3, 1>>

edges == <<2, 4, 6, 8>>

\* best_move without Rule 2: an opponent's threat is not blocked.
best_move_noblock(b, me, opponent) ==
    LET w   == find_winning_move(b, me)
        opp == {i \in 1..4 : b[corners[i]] = opponent /\ b[opposite[i]] = " "}
        cor == {i \in 1..4 : b[corners[i]] = " "}
        edg == {i \in 1..4 : b[edges[i]] = " "}
    IN  IF w > 0 THEN w
        ELSE IF b[5] = " " THEN 5
        ELSE IF opp # {} THEN opposite[Min(opp)]
        ELSE IF cor # {} THEN corners[Min(cor)]
        ELSE IF edg # {} THEN edges[Min(edg)]
        ELSE 0

best_move(b, me, opponent) ==
    LET w   == find_winning_move(b, me)
        k   == find_winning_move(b, opponent)
        opp == {i \in 1..4 : b[corners[i]] = opponent /\ b[opposite[i]] = " "}
        cor == {i \in 1..4 : b[corners[i]] = " "}
        edg == {i \in 1..4 : b[edges[i]] = " "}
    IN  IF w > 0 THEN w
        ELSE IF k > 0 THEN k
        ELSE IF b[5] = " " THEN 5
        ELSE IF opp # {} THEN opposite[Min(opp)]
        ELSE IF cor # {} THEN corners[Min(cor)]
        ELSE IF edg # {} THEN edges[Min(edg)]
        ELSE 0

Other(mark) == IF mark = "X" THEN "O" ELSE "X"

\* The mark to move being X at every turn.
current_always_X == "X"

\* char current = (turn % 2 == 0) ? 'X' : 'O'
current == IF turn % 2 = 0 THEN "X" ELSE "O"

\* What a human can type at "Your move (1-9)": in range or not.
Inputs24 == 0..10

Idle73 ==
    /\ knowledge = <<>>
    /\ nknowledge = 0
    /\ move_history = [i \in 0..8 |-> 0]
    /\ nmoves = 0
    /\ outcome = 0
    /\ rounds = 0
    /\ prev_history = <<>>
    /\ prev_outcome = -1
    /\ file = <<>>
    /\ fd = -1
    /\ save_i = 0

Init24 ==
    /\ board = InitBoard24
    /\ pc = "choice"
    /\ turn = 0
    /\ human = "?"
    /\ computer = "?"
    /\ ret = 0
    /\ Idle73

\* main, lines 109-119: "Play as X or O?"
Choose ==
    /\ pc = "choice"
    /\ \E c \in {"O", "X"} :
          /\ human' = c
          /\ computer' = Other(c)
    /\ pc' = "loop"
    /\ UNCHANGED <<board, turn, ret>>
    /\ UNCHANGED vars73

\* main, line 111: the choice cannot be read.
ChoiceEOF ==
    /\ pc = "choice"
    /\ pc' = "exit"
    /\ UNCHANGED <<board, turn, human, computer, ret>>
    /\ UNCHANGED vars73

\* Neither mark is a human's: every move of both marks is best_move's, the
\* mark to move calling best_move(its mark, the other mark).
ChooseSelfPlay ==
    /\ pc = "choice"
    /\ human' = "none"
    /\ computer' = "both"
    /\ pc' = "loop"
    /\ UNCHANGED <<board, turn, ret>>
    /\ UNCHANGED vars73

\* The end of one loop iteration, lines 141-146, after `b` was written.
AfterMove24(b) ==
    /\ board' = b
    /\ IF check_win(b, current)
       THEN pc' = "won" /\ turn' = turn
       ELSE /\ turn' = turn + 1
            /\ pc' = IF turn + 1 < 9 THEN "loop" ELSE "draw"

\* main, lines 126-134 with 141-146: the human's turn.
HumanMove24 ==
    /\ pc = "loop"
    /\ current = human
    /\ \E move \in Inputs24 :
          IF move < 1 \/ move > 9 \/ board[move] # " "
          THEN UNCHANGED <<board, pc, turn>>      \* turn--; continue; turn++
          ELSE AfterMove24([board EXCEPT ![move] = human])
    /\ ret' = ret
    /\ UNCHANGED <<human, computer>>
    /\ UNCHANGED vars73

\* main, lines 135-139 with 141-146: the computer's turn.
ComputerMove24 ==
    /\ pc = "loop"
    /\ current # human
    /\ LET move == best_move(board, current, Other(current))
       IN  /\ ret' = move
           /\ AfterMove24([board EXCEPT ![move] = current])
    /\ UNCHANGED <<human, computer>>
    /\ UNCHANGED vars73

Next24 == Choose \/ ChoiceEOF \/ ChooseSelfPlay \/ HumanMove24 \/ ComputerMove24

Spec24 == Init24 /\ [][Next24]_vars

(***************************************************************************)
(* Claims about the 2024 program                                           *)
(***************************************************************************)

\* A cell of the 3x3 grid is empty when it holds neither mark.
Marked(b, c) == b[c] \in {"X", "O"}

\* Cell c is empty and completes a line whose other two cells hold mark m.
Completes(b, c, m) ==
    /\ ~Marked(b, c)
    /\ \E i \in 1..8 : \E j \in 1..3 :
          /\ wins[i][j] = c
          /\ \A k \in (1..3) \ {j} : b[wins[i][k]] = m

HasWinningCell(b, m) == \E c \in 1..9 : Completes(b, c, m)

\* It is the computer's turn: main is about to call best_move.
ComputerToMove == pc = "loop" /\ current # human

\* C1: with a human playing either mark against best_move, no reachable
\* state of the 2024 program has the human owning a complete winning line.
C1_ComputerNeverLoses ==
    human \in {"X", "O"} => ~check_win(board, human)

\* C1 witness: a finished game in which the computer blocked a line that
\* held two of the human's marks.
C1_Witness ==
    /\ human \in {"X", "O"}
    /\ pc \in {"won", "draw"}
    /\ \E i \in 1..8 : \E j \in 1..3 :
          /\ board[wins[i][j]] = computer
          /\ \A k \in (1..3) \ {j} : board[wins[i][k]] = human

\* C2: when best_move chooses every move of both marks from the empty
\* board, the game ends after 9 moves as a draw on a full board: every one
\* of the nine cells holds a mark and neither mark owns a line.
C2_SelfPlayEndsInFullDraw ==
    (human = "none" /\ pc \in {"won", "draw"}) =>
        /\ pc = "draw"
        /\ turn = 9
        /\ \A c \in 1..9 : Marked(board, c)
        /\ ~check_win(board, "X")
        /\ ~check_win(board, "O")

\* C3: Win before Block.  When best_move is called for mark `me`: if some
\* empty cell completes a line for `me`, the returned cell completes a line
\* for `me`; otherwise, if some empty cell completes a line for the
\* opponent, the returned cell completes a line for the opponent.
C3_WinBeforeBlock ==
    ComputerToMove =>
        LET me == current
            op == Other(current)
            m  == best_move(board, me, op)
        IN  /\ HasWinningCell(board, me) =>
                  (m \in 1..9 /\ Completes(board, m, me))
            /\ (~HasWinningCell(board, me) /\ HasWinningCell(board, op)) =>
                  (m \in 1..9 /\ Completes(board, m, op))

\* The move the Center/Corner/Edge rules prescribe on board b for the
\* player whose opponent is op (0 when no cell is empty).
CenterCornerEdge(b, op) ==
    LET opp == {i \in 1..4 : b[corners[i]] = op /\ ~Marked(b, opposite[i])}
        cor == {i \in 1..4 : ~Marked(b, corners[i])}
        edg == {i \in 1..4 : ~Marked(b, edges[i])}
    IN  IF ~Marked(b, 5) THEN 5
        ELSE IF opp # {} THEN opposite[Min(opp)]
        ELSE IF cor # {} THEN corners[Min(cor)]
        ELSE IF edg # {} THEN edges[Min(edg)]
        ELSE 0

\* C4: when best_move is called on a board where neither mark has an
\* immediate winning cell and some cell is empty, it returns the center if
\* empty, else the opposite of the first opponent-held corner whose opposite
\* is empty, else the lowest empty corner, else the lowest empty edge.
C4_CenterCornerEdge ==
    (/\ ComputerToMove
     /\ ~HasWinningCell(board, "X")
     /\ ~HasWinningCell(board, "O")
     /\ \E c \in 1..9 : ~Marked(board, c)) =>
        best_move(board, current, Other(current))
            = CenterCornerEdge(board, Other(current))

(***************************************************************************)
(* 1973/ttt_reconstructed.c                                                *)
(***************************************************************************)

EMPTY == 0

HUMAN == 1

COMPUTER == 2

MAX_KNOWLEDGE == 200

\* memset(board, EMPTY, sizeof(board))
EmptyBoard73 == [i \in 0..8 |-> EMPTY]

\* A result of 8 bits instead of 16.
UShortNarrow(n) == n % 256

\* Conversion to unsigned short: the value modulo 2^16.
UShort(n) == n % 65536

\* Conversion to signed char: the value modulo 2^8, in -128..127.
SChar(n) == ((n + 128) % 256) - 128

\* The loop of encode_board from index i on, `result` being the value so far;
\* every assignment to the unsigned short result truncates to 16 bits.
RECURSIVE EncodeFrom(_, _, _)
EncodeFrom(b, i, result) ==
    IF i >= 9 THEN result
    ELSE EncodeFrom(b, i + 1, UShort(result * 3 + b[i]))

encode_board(b) == EncodeFrom(b, 0, 0)

\* A table with the rows and columns and, for the diagonals, two rows again.
lines_without_diagonals ==
    << <<0, 1, 2>>, <<3, 4, 5>>, <<6, 7, 8>>,
       <<0, 3, 6>>, <<1, 4, 7>>, <<2, 5, 8>>,
       <<0, 1, 2>>, <<3, 4, 5>> >>

lines == << <<0, 1, 2>>, <<3, 4, 5>>, <<6, 7, 8>>,
            <<0, 3, 6>>, <<1, 4, 7>>, <<2, 5, 8>>,
            <<0, 4, 8>>, <<2, 4, 6>> >>

\* A check_winner that finds no winner on any board.
check_winner_none(b) == 0

check_winner(b) ==
    LET H == {i \in 1..8 : /\ b[lines[i][1]] # EMPTY
                           /\ b[lines[i][1]] = b[lines[i][2]]
                           /\ b[lines[i][2]] = b[lines[i][3]]}
    IN  IF H = {} THEN 0 ELSE b[lines[Min(H)][1]]

\* A board_full that never finds the board full.
board_full_never(b) == FALSE

board_full(b) == \A i \in 0..8 : b[i] # EMPTY

\* The table is the sequence of its first nknowledge entries; entry i of the
\* C array is element i + 1.
lookup_weight(b, kn) ==
    LET code == encode_board(b)
        H    == {i \in 1..Len(kn) : kn[i].board = code}
    IN  IF H = {} THEN 0 ELSE kn[Min(H)].weight

\* A find_or_create that appends without looking at the number of entries.
find_or_create_unbounded(kn, code) ==
    LET H == {i \in 1..Len(kn) : kn[i].board = code}
    IN  IF H # {} THEN [idx |-> Min(H) - 1, kn |-> kn]
        ELSE [idx |-> Len(kn),
              kn  |-> Append(kn, [board |-> code, weight |-> 0])]

\* find_or_create: the returned index (C index, -1 when the table is full)
\* and the table afterwards.
find_or_create(kn, code) ==
    LET H == {i \in 1..Len(kn) : kn[i].board = code}
    IN  IF H # {} THEN [idx |-> Min(H) - 1, kn |-> kn]
        ELSE IF Len(kn) < MAX_KNOWLEDGE
             THEN [idx |-> Len(kn),
                   kn  |-> Append(kn, [board |-> code, weight |-> 0])]
             ELSE [idx |-> -1, kn |-> kn]

\* A loop body that leaves the tried mark on the board.
UntryKeepsMark(b, i) == b

\* compute_move, line 157: board[i] = EMPTY after the lookup.
Untry(b, i) == [b EXCEPT ![i] = EMPTY]

\* The first loop of compute_move from cell i on, b being the global board:
\* the mark is written to it (line 155), looked up and taken off again.
RECURSIVE ScanMoves(_, _, _, _, _)
ScanMoves(b, kn, i, best, best_weight) ==
    IF i >= 9
    THEN [best_move |-> best, best_weight |-> best_weight, board |-> b]
    ELSE IF b[i] = EMPTY
         THEN LET tried  == [b EXCEPT ![i] = COMPUTER]
                  weight == lookup_weight(tried, kn)
              IN  IF weight > best_weight
                  THEN ScanMoves(Untry(tried, i), kn, i + 1, i, weight)
                  ELSE ScanMoves(Untry(tried, i), kn, i + 1, best, best_weight)
         ELSE ScanMoves(b, kn, i + 1, best, best_weight)

\* A fallback that takes the first free cell in board order.
priority_ascending == <<0, 1, 2, 3, 4, 5, 6, 7, 8>>

priority == <<4, 0, 2, 6, 8, 1, 3, 5, 7>>

\* A compute_move whose best weight starts at 0 and that has no fallback.
compute_move_no_fallback(b, kn) == ScanMoves(b, kn, 0, -1, 0).best_move

\* The value compute_move returns; the fallback loop reads the board the
\* first loop left.
compute_move(b, kn) ==
    LET s == ScanMoves(b, kn, 0, -1, -1000)
        P == {i \in 1..9 : s.board[priority[i]] = EMPTY}
    IN  IF (s.best_move < 0 \/ s.best_weight = 0) /\ P # {}
        THEN priority[Min(P)]
        ELSE s.best_move

\* The global board when compute_move returns.
compute_move_board(b, kn) == ScanMoves(b, kn, 0, -1, -1000).board

\* delta of update_knowledge
Delta(oc) == IF oc = COMPUTER THEN 3 ELSE IF oc = 0 THEN 1 ELSE -2

\* knowledge[idx].weight += delta, stored into a signed char, followed by
\* the two comparisons of the stored value with 127 and -128.
AdjustWeight(w, delta) ==
    LET w1 == SChar(w + delta)
        w2 == IF w1 > 127 THEN 127 ELSE w1
    IN  IF w2 < -128 THEN -128 ELSE w2

\* The replay loop of update_knowledge from history index i on.
RECURSIVE Replay(_, _, _, _, _, _)
Replay(b, kn, hist, n, i, delta) ==
    IF i >= n THEN [board |-> b, knowledge |-> kn]
    ELSE LET b1 == [b EXCEPT ![hist[i]] = IF i % 2 = 0 THEN HUMAN ELSE COMPUTER]
         IN  IF i % 2 = 1
             THEN LET f == find_or_create(kn, encode_board(b1))
                  IN  IF f.idx >= 0
                      THEN Replay(b1,
                                  [f.kn EXCEPT ![f.idx + 1].weight =
                                       AdjustWeight(@, delta)],
                                  hist, n, i + 1, delta)
                      ELSE Replay(b1, f.kn, hist, n, i + 1, delta)
             ELSE Replay(b1, kn, hist, n, i + 1, delta)

\* An update that clears the board and does not rebuild it.
update_knowledge_cleared(kn, hist, n, oc) ==
    [board |-> EmptyBoard73,
     knowledge |-> Replay(EmptyBoard73, kn, hist, n, 0, Delta(oc)).knowledge]

\* update_knowledge(outcome): the board and the table when it returns.
update_knowledge(kn, hist, n, oc) ==
    Replay(EmptyBoard73, kn, hist, n, 0, Delta(oc))

\* A record with the high byte of the board code first.
RecordBytesHighFirst(e) ==
    <<(e.board \div 256) % 256, e.board % 256, e.weight % 256>>

\* One 3-byte record of the knowledge file: the board code low byte first,
\* then the weight as a byte.
RecordBytes(e) == <<e.board % 256, (e.board \div 256) % 256, e.weight % 256>>

\* A loop that reads every whole record of the file.
LoadCountUncapped(bytes) == Len(bytes) \div 3

\* The loop of load_knowledge: the number of times its body runs, which is
\* the first value k of nknowledge at which read(fd, buf, 3) == 3 (three
\* more bytes after 3k) && nknowledge < MAX_KNOWLEDGE is false.
LoadCount(bytes) ==
    Min({k \in 0..MAX_KNOWLEDGE :
            ~(3 * k + 3 <= Len(bytes) /\ k < MAX_KNOWLEDGE)})

\* The body of the loop: the entry stored at C index k from the bytes
\* buf[0], buf[1], buf[2] of record k.
LoadEntry(bytes, k) ==
    [board  |-> UShort(bytes[3 * k + 1] + 256 * bytes[3 * k + 2]),
     weight |-> SChar(bytes[3 * k + 3])]

\* load_knowledge on a file that could be opened: the table afterwards.
load_knowledge(bytes) ==
    [i \in 1..LoadCount(bytes) |-> LoadEntry(bytes, i - 1)]

\* The value of `file` when ttt.k is absent or unreadable, so that open
\* fails; no byte of a file is negative.
NoFile == <<-1>>

\* A load that returns -1 when the file cannot be opened, as save_knowledge
\* does for creat.
LoadResultMinusOne(f, kn) ==
    IF f = NoFile THEN [knowledge |-> kn, ret |-> -1]
    ELSE [knowledge |-> load_knowledge(f), ret |-> Len(load_knowledge(f))]

\* load_knowledge(path) called with the table kn: the table afterwards and
\* the value returned.  When open fails the function returns 0 before it
\* has touched nknowledge.
LoadResult(f, kn) ==
    IF f = NoFile THEN [knowledge |-> kn, ret |-> 0]
    ELSE [knowledge |-> load_knowledge(f), ret |-> Len(load_knowledge(f))]

\* The bytes the loop of save_knowledge puts into the file for the entries
\* lo..hi, in order (computed by halves to keep the evaluation shallow).
\* written[i] is the number of bytes the i-th write(fd, buf, 3) put into the
\* file: 3, or fewer when the write fails or is cut short.  The loop does
\* not look at what write returns.
RECURSIVE SaveRange(_, _, _, _)
SaveRange(kn, written, lo, hi) ==
    IF lo > hi THEN <<>>
    ELSE IF lo = hi THEN SubSeq(RecordBytes(kn[lo]), 1, written[lo])
    ELSE LET mid == (lo + hi) \div 2
         IN  SaveRange(kn, written, lo, mid) \o SaveRange(kn, written, mid + 1, hi)

\* A save that writes the number of entries in front of the records.
save_knowledge_with_count(kn, written) ==
    [file |-> <<Len(kn)>> \o SaveRange(kn, written, 1, Len(kn)), ret |-> Len(kn)]

\* save_knowledge when creat succeeded: the file afterwards (creat empties
\* it) and the value returned.
save_knowledge(kn, written) ==
    [file |-> SaveRange(kn, written, 1, Len(kn)), ret |-> Len(kn)]

\* The session is cut after this many rounds.
MaxRounds == 3

\* What response[0] - '1' can be at the "? " prompt: in range or not.
Inputs73 == -1..9

\* The board after the human played cell h and the computer cell c.
TwoMoves(h, c) == [EmptyBoard73 EXCEPT ![h] = HUMAN, ![c] = COMPUTER]

\* ttt.k at the start of a session: absent, empty, one learned position,
\* two learned positions followed by a partial record, two records for one
\* position.
Files73 ==
    { NoFile,
      <<>>,
      RecordBytes([board |-> encode_board(TwoMoves(0, 4)), weight |-> -2]),
      RecordBytes([board |-> encode_board(TwoMoves(0, 4)), weight |-> -2])
        \o RecordBytes([board |-> encode_board(TwoMoves(0, 1)), weight |-> 3])
        \o <<7>>,
      RecordBytes([board |-> encode_board(TwoMoves(0, 4)), weight |-> -2])
        \o RecordBytes([board |-> encode_board(TwoMoves(0, 4)), weight |-> 3]) }

Idle24 ==
    /\ turn = 0
    /\ human = "X"
    /\ computer = "O"

Init73 ==
    /\ board = EmptyBoard73
    /\ pc = "ask"
    /\ knowledge = <<>>
    /\ nknowledge = 0
    /\ move_history = [i \in 0..8 |-> 0]
    /\ nmoves = 0
    /\ outcome = 0
    /\ ret = 0
    /\ rounds = 0
    /\ prev_history = <<>>
    /\ prev_outcome = -1
    /\ file \in Files73
    /\ fd = -1
    /\ save_i = 0
    /\ Idle24

\* The moves of the current round, in order.
History == [i \in 1..nmoves |-> move_history[i - 1]]

\* main, lines 313-322: "Accumulated knowledge?" answered with something
\* other than y or Y.
AnswerNo ==
    /\ pc = "ask"
    /\ pc' = "newgame"
    /\ UNCHANGED <<board, ret>>
    /\ UNCHANGED vars73
    /\ UNCHANGED vars24

\* main, lines 318-322: answered y; load_knowledge opens the file or fails.
AnswerYes ==
    /\ pc = "ask"
    /\ LET l == LoadResult(file, knowledge)
       IN  /\ knowledge' = l.knowledge
           /\ nknowledge' = Len(l.knowledge)
           /\ ret' = l.ret
    /\ pc' = "newgame"
    /\ UNCHANGED <<board, move_history, nmoves, outcome, rounds,
                   prev_history, prev_outcome, file, fd, save_i>>
    /\ UNCHANGED vars24

\* A start of round that resets the board but not the move count.
NewGameKeepsHistory ==
    /\ pc = "newgame"
    /\ rounds < MaxRounds
    /\ rounds' = rounds + 1
    /\ board' = EmptyBoard73
    /\ pc' = "human"
    /\ UNCHANGED <<knowledge, nknowledge, move_history, nmoves, outcome, ret,
                   prev_history, prev_outcome, file, fd, save_i>>
    /\ UNCHANGED vars24

\* main, lines 326-328: a round starts.
NewGame ==
    /\ pc = "newgame"
    /\ rounds < MaxRounds
    /\ rounds' = rounds + 1
    /\ board' = EmptyBoard73
    /\ nmoves' = 0
    /\ pc' = "human"
    /\ UNCHANGED <<knowledge, nknowledge, move_history, outcome, ret,
                   prev_history, prev_outcome, file, fd, save_i>>
    /\ UNCHANGED vars24

\* A recording that always writes the first slot of the history.
RecordFirstSlot(hist, n, move) == [hist EXCEPT ![0] = move]

\* main, lines 347 and 372: move_history[nmoves++] = move, the array.
Record(hist, n, move) == [hist EXCEPT ![n] = move]

\* A test that only looks at the range of the move.
IllegalMoveRangeOnly(b, move) == move < 0 \/ move > 8

\* main, line 341: the test that rejects the human's move.
IllegalMove(b, move) == move < 0 \/ move > 8 \/ b[move] # EMPTY

\* main, lines 335-361: the human's turn, the input drawn from `inputs`.
HumanTurn(inputs) ==
    /\ pc = "human"
    /\ \E move \in inputs :
          IF IllegalMove(board, move)
          THEN UNCHANGED <<board, move_history, nmoves, outcome, pc>>
          ELSE LET b == [board EXCEPT ![move] = HUMAN]
               IN  /\ board' = b
                   /\ move_history' = Record(move_history, nmoves, move)
                   /\ nmoves' = nmoves + 1
                   /\ IF check_winner(b) = HUMAN
                      THEN pc' = "update" /\ outcome' = HUMAN
                      ELSE IF board_full(b)
                           THEN pc' = "update" /\ outcome' = 0
                           ELSE pc' = "computer" /\ outcome' = outcome
    /\ UNCHANGED <<knowledge, nknowledge, ret, rounds, prev_history,
                   prev_outcome, file, fd, save_i>>
    /\ UNCHANGED vars24

\* The human types anything in the first round and, from the second round
\* on, what they typed at the same prompt of the round before.
HumanRepeat73 ==
    HumanTurn(IF rounds <= 1 THEN Inputs73
              ELSE IF nmoves < Len(prev_history)
                   THEN {prev_history[nmoves + 1]}
                   ELSE {})

\* main, lines 337-338: end of input.
EndOfInput ==
    /\ pc \in {"ask", "human"}
    /\ pc' = "done"
    /\ UNCHANGED <<board, ret>>
    /\ UNCHANGED vars73
    /\ UNCHANGED vars24

\* main, lines 363-380: the computer's turn.
ComputerMove73 ==
    /\ pc = "computer"
    /\ LET move  == compute_move(board, knowledge)
           after == compute_move_board(board, knowledge)
       IN  /\ ret' = move
           /\ IF move < 0
              THEN /\ pc' = "update"
                   /\ outcome' = HUMAN
                   /\ board' = after
                   /\ UNCHANGED <<move_history, nmoves>>
              ELSE LET b == [after EXCEPT ![move] = COMPUTER]
                   IN  /\ board' = b
                       /\ move_history' = Record(move_history, nmoves, move)
                       /\ nmoves' = nmoves + 1
                       /\ IF check_winner(b) = COMPUTER
                          THEN pc' = "update" /\ outcome' = COMPUTER
                          ELSE pc' = "human" /\ outcome' = outcome
    /\ UNCHANGED <<knowledge, nknowledge, rounds, prev_history, prev_outcome,
                   file, fd, save_i>>
    /\ UNCHANGED vars24

\* main, lines 353, 359, 367, 378: update_knowledge(outcome), then break.
\* Its effect on the program's own variables.
UpdateStep ==
    /\ pc = "update"
    /\ LET u == update_knowledge(knowledge, move_history, nmoves, outcome)
       IN  /\ board' = u.board
           /\ knowledge' = u.knowledge
           /\ nknowledge' = Len(u.knowledge)
    /\ pc' = "save"
    /\ UNCHANGED <<move_history, nmoves, outcome, ret, rounds, file, fd, save_i>>
    /\ UNCHANGED vars24

\* The step, the finished round also being put on record.
UpdateAndRecord ==
    /\ UpdateStep
    /\ prev_history' = History
    /\ prev_outcome' = outcome

\* save_knowledge with creat failing or succeeding, the writes putting
\* `written` bytes each into the file.
SaveOutcomes(kn, old, Written) ==
    {[file |-> old, ret |-> -1]} \cup {save_knowledge(kn, w) : w \in Written}

\* main, lines 383-386: save_knowledge; creat fails, or it succeeds and
\* then either every write succeeds or every write fails.
SaveKnowledge ==
    /\ pc = "save"
    /\ \E r \in SaveOutcomes(knowledge, file,
                              {[i \in 1..nknowledge |-> n] : n \in {0, 3}}) :
          /\ file' = r.file
          /\ ret' = r.ret
    /\ pc' = "newgame"
    /\ UNCHANGED <<board, knowledge, nknowledge, move_history, nmoves,
                   outcome, rounds, prev_history, prev_outcome, fd, save_i>>
    /\ UNCHANGED vars24

\* A session in which the human retries, round after round, the moves of the
\* round before.
NextRepeat ==
    \/ AnswerNo \/ AnswerYes \/ EndOfInput \/ NewGame \/ HumanRepeat73
    \/ ComputerMove73 \/ UpdateAndRecord \/ SaveKnowledge

SpecRepeat == Init73 /\ [][NextRepeat]_vars

(***************************************************************************)
(* Claims about sessions of the 1973 program                               *)
(***************************************************************************)

\* The round in progress follows the line of the round before, which the
\* human won, and it is the computer's turn.
OnLostLine ==
    /\ pc = "computer"
    /\ prev_outcome = HUMAN
    /\ nmoves < Len(prev_history)
    /\ \A i \in 1..nmoves : move_history[i - 1] = prev_history[i]

\* The stored weight of the board that results from the computer playing c.
MoveWeight(c) == lookup_weight([board EXCEPT ![c] = COMPUTER], knowledge)

\* C10: after a round the human won, (a) the next round is not won by the
\* human with the identical sequence of moves, and (b) at a computer turn on
\* the lost line where another legal move has a higher stored weight than
\* the move played before, the computer plays a different move.
C10_LossIsNotRepeated ==
    /\ (pc = "update" /\ outcome = HUMAN /\ prev_outcome = HUMAN)
           => History # prev_history
    /\ (/\ OnLostLine
        /\ \E c \in 0..8 : /\ board[c] = EMPTY
                           /\ MoveWeight(c) > MoveWeight(prev_history[nmoves + 1]))
           => compute_move(board, knowledge) # prev_history[nmoves + 1]

\* C13: no two entries of the table have the same board code, whatever file
\* the table was loaded from, and during play no entry is removed: the
\* number of entries does not decrease and each entry keeps its code and
\* its place.
C13_CodesUniqueEntriesKept ==
    [][/\ \A i, j \in 1..Len(knowledge') :
             knowledge'[i].board = knowledge'[j].board => i = j
       /\ pc # "ask" =>
             /\ Len(knowledge') >= Len(knowledge)
             /\ \A i \in 1..Len(knowledge) :
                   knowledge'[i].board = knowledge[i].board]_vars

\* C18: save_knowledge reports every I/O failure: it returns the failure
\* value -1 when the file cannot be created and when a write fails, and
\* whenever it returns anything else the file holds all the records.
C18_SaveFailureIsReported ==
    [][(pc = "save" /\ pc' = "newgame") =>
          \/ ret' = -1 /\ file' = file
          \/ /\ ret' = nknowledge
             /\ Len(file') = 3 * nknowledge
             /\ \A k \in 1..nknowledge :
                   <<file'[3 * k - 2], file'[3 * k - 1], file'[3 * k]>>
                       = RecordBytes(knowledge[k])]_vars

\* The first round is being played and nothing has been learned or saved
\* yet.
InFirstRound == rounds = 1 /\ pc \in {"human", "computer", "update"}

\* C19: when ttt.k cannot be opened, load_knowledge returns 0 and the table
\* is empty afterwards, and the session goes on to its first round, which
\* is played on the empty table: every stored weight reads as 0 and the
\* computer takes the first free cell of its fixed order.
C19_UnopenableFileMeansEmptyStore ==
    file = NoFile =>
        /\ pc # "ask" => \/ pc = "done"
                         \/ pc = "newgame" /\ rounds = 0
                         \/ rounds >= 1
        /\ (pc = "newgame" /\ rounds = 0) =>
              ret = 0 /\ nknowledge = 0 /\ knowledge = <<>>
        /\ InFirstRound => nknowledge = 0 /\ knowledge = <<>>
        /\ (InFirstRound /\ pc = "computer") =>
              /\ \A c \in 0..8 : board[c] = EMPTY => MoveWeight(c) = 0
              /\ compute_move(board, knowledge) =
                    priority[Min({i \in 1..9 : board[priority[i]] = EMPTY})]

\* C19 witness: with no file to open, the first round was played to a win
\* of the computer and is about to be learned into the empty table.
C19_Witness ==
    /\ file = NoFile
    /\ rounds = 1
    /\ pc = "update"
    /\ outcome = COMPUTER
    /\ knowledge = <<>>

(***************************************************************************)
(* Functions of the 1973 program applied to enumerated inputs              *)
(***************************************************************************)

IdleSession ==
    /\ move_history = [i \in 0..8 |-> 0]
    /\ nmoves = 0
    /\ outcome = 0
    /\ rounds = 0
    /\ prev_history = <<>>
    /\ prev_outcome = -1
    /\ file = <<>>
    /\ fd = -1
    /\ save_i = 0
    /\ Idle24

\* encode_board on every assignment of the nine cells.
InitEncode ==
    /\ board \in [0..8 -> {EMPTY, HUMAN, COMPUTER}]
    /\ pc = "call"
    /\ ret = 0
    /\ knowledge = <<>>
    /\ nknowledge = 0
    /\ IdleSession

CallEncode ==
    /\ pc = "call"
    /\ ret' = encode_board(board)
    /\ pc' = "returned"
    /\ UNCHANGED board
    /\ UNCHANGED vars73
    /\ UNCHANGED vars24

SpecEncode == InitEncode /\ [][CallEncode]_vars

RECURSIVE Pow3(_)
Pow3(i) == IF i = 0 THEN 1 ELSE 3 * Pow3(i - 1)

\* The sum over cells i..8 of b[k] * 3^k.
RECURSIVE SumLowFirst(_, _)
SumLowFirst(b, i) ==
    IF i > 8 THEN 0 ELSE b[i] * Pow3(i) + SumLowFirst(b, i + 1)

\* The sum over cells i..8 of b[k] * 3^(8-k).
RECURSIVE SumHighFirst(_, _)
SumHighFirst(b, i) ==
    IF i > 8 THEN 0 ELSE b[i] * Pow3(8 - i) + SumHighFirst(b, i + 1)

\* The board whose cell i is the base-3 digit of weight 3^(8-i) of code c.
DecodeHighFirst(c) == [i \in 0..8 |-> (c \div Pow3(8 - i)) % 3]

\* C5: for every board, encode_board returns the sum of cell[i] * 3^i over
\* i = 0..8: cell 0 is the least significant base-3 digit.
C5_CellZeroLeastSignificant ==
    pc = "returned" => ret = SumLowFirst(board, 0)

\* C6: encode_board is one-to-one from the 3^9 boards into 0..19682: the
\* code is the untruncated base-3 value of the cells (so below 2^15), and
\* the board is recovered from its code, so no two boards share a code.
C6_EncodeIsInjectiveAndFits ==
    pc = "returned" =>
        /\ ret \in 0..19682
        /\ ret < 32768
        /\ ret = SumHighFirst(board, 0)
        /\ DecodeHighFirst(ret) = board

\* C6 witness: the board of nine COMPUTER cells was encoded, to the
\* greatest code.
C6_Witness ==
    /\ pc = "returned"
    /\ \A i \in 0..8 : board[i] = COMPUTER
    /\ ret = 19682

\* update_knowledge on a two-move round whose one computer position is
\* already in the table with any weight, for each of the three outcomes.
InitWeight ==
    /\ \E h \in {0, 4} : \E c \in {1, 8} : \E w \in -128..127 :
          /\ move_history = [i \in 0..8 |-> IF i = 0 THEN h ELSE IF i = 1 THEN c ELSE 0]
          /\ knowledge = << [board |-> encode_board(TwoMoves(h, c)), weight |-> w] >>
          /\ board = TwoMoves(h, c)
    /\ nknowledge = 1
    /\ nmoves = 2
    /\ outcome \in {0, HUMAN, COMPUTER}
    /\ pc = "call"
    /\ ret = 0
    /\ rounds = 0
    /\ prev_history = <<>>
    /\ prev_outcome = -1
    /\ file = <<>>
    /\ fd = -1
    /\ save_i = 0
    /\ Idle24

CallUpdate ==
    /\ pc = "call"
    /\ LET u == update_knowledge(knowledge, move_history, nmoves, outcome)
       IN  /\ board' = u.board
           /\ knowledge' = u.knowledge
           /\ nknowledge' = Len(u.knowledge)
    /\ pc' = "returned"
    /\ UNCHANGED <<move_history, nmoves, outcome, ret, rounds, prev_history,
                   prev_outcome, file, fd, save_i>>
    /\ UNCHANGED vars24

SpecWeight == InitWeight /\ [][CallUpdate]_vars

Saturate(n) == IF n > 127 THEN 127 ELSE IF n < -128 THEN -128 ELSE n

\* C7: the weight adjustment saturates and never wraps: the weight stored
\* by update_knowledge is max(-128, min(127, w + delta)) for the weight w
\* stored before and delta in {+3, +1, -2}.
C7_WeightSaturates ==
    [][(pc = "call" /\ pc' = "returned") =>
          knowledge'[1].weight = Saturate(knowledge[1].weight + Delta(outcome))]_vars

\* Table entries are drawn with these weights.
Weights == {-2, 0, 3}

\* and tables with at most this many entries.
MaxEntries == 2

\* Weights at and near the two ends of a signed char, and in the middle.
LearnWeights == {-128, 0, 126, 127}

\* Rounds in which the human plays 0 or 4 then 2 or 5 and the computer 1 or
\* 8 then 3 or 6.
LearnLines == {<<h1, c1, h2, c2>> : h1 \in {0, 4}, c1 \in {1, 8},
                                    h2 \in {2, 5}, c2 \in {3, 6}}

\* The board after the moves line[1..k], the human moving first.
LineBoard(line, k) ==
    [c \in 0..8 |->
        IF \E i \in 1..k : line[i] = c /\ i % 2 = 1 THEN HUMAN
        ELSE IF \E i \in 1..k : line[i] = c /\ i % 2 = 0 THEN COMPUTER
        ELSE EMPTY]

\* Entries for the two positions of a line that follow a computer move and
\* for the empty board.
LearnEntries(line) ==
    {[board |-> encode_board(b), weight |-> w] :
        b \in {EmptyBoard73, LineBoard(line, 2), LineBoard(line, 4)},
        w \in LearnWeights}

\* Tables of at most n such entries, in any order, a code possibly twice.
LearnTables(line, n) == UNION {[1..k -> LearnEntries(line)] : k \in 0..n}

\* n entries for boards that have the computer in cell 0, which no line
\* above reaches.
Filler(n) == [i \in 1..n |-> [board |-> 13122 + i, weight |-> 0]]

\* Tables with MAX_KNOWLEDGE entries, or one entry fewer, the last of which
\* may be for a position of the line.
NearFullTables(line) ==
    {Filler(m - Len(kn)) \o kn :
        kn \in LearnTables(line, 1), m \in {MAX_KNOWLEDGE - 1, MAX_KNOWLEDGE}}

\* update_knowledge after the first nmoves moves of a line, for each of the
\* three outcomes, on a small table or on one that is full or nearly so.
InitLearn ==
    /\ \E line \in LearnLines :
          /\ move_history = [i \in 0..8 |-> IF i < 4 THEN line[i + 1] ELSE 0]
          /\ knowledge \in LearnTables(line, MaxEntries) \cup NearFullTables(line)
          /\ \E n \in 1..4 : nmoves = n /\ board = LineBoard(line, n)
    /\ nknowledge = Len(knowledge)
    /\ outcome \in {0, HUMAN, COMPUTER}
    /\ pc = "call"
    /\ ret = 0
    /\ rounds = 0
    /\ prev_history = <<>>
    /\ prev_outcome = -1
    /\ file = <<>>
    /\ fd = -1
    /\ save_i = 0
    /\ Idle24

SpecLearn == InitLearn /\ [][CallUpdate]_vars

\* The history indices of the computer's moves in the round.
ComputerIndices == {i \in 0..(nmoves - 1) : i % 2 = 1}

\* The code of the board reached by the moves 0..i of the round.
CodeAfter(i) == encode_board(LineBoard(History, i + 1))

\* The codes of the boards that follow a computer move.
LearnedCodes == {CodeAfter(i) : i \in ComputerIndices}

\* The index of the first entry of kn for code, 0 if there is none.
FirstEntry(kn, code) ==
    IF \E j \in 1..Len(kn) : kn[j].board = code
    THEN Min({j \in 1..Len(kn) : kn[j].board = code})
    ELSE 0

\* The codes of the round that the table has no entry for.
AbsentCodes == {c \in LearnedCodes : FirstEntry(knowledge, c) = 0}

\* C11: update_knowledge finds or creates the entry of exactly the boards
\* that follow a computer move of the round, as long as the table has room
\* for them, and changes its weight by +3, +1 or -2 (to the end of the
\* weight's range at most); every other entry keeps its code and weight.
C11_UpdatesComputerPositions ==
    [][(/\ pc = "call"
        /\ pc' = "returned"
        /\ Len(knowledge) + Cardinality(AbsentCodes) <= MAX_KNOWLEDGE) =>
          /\ Len(knowledge') = Len(knowledge) + Cardinality(AbsentCodes)
          /\ \A c \in LearnedCodes : FirstEntry(knowledge', c) # 0
          /\ \A j \in 1..Len(knowledge') :
                LET before == IF j <= Len(knowledge) THEN knowledge[j]
                              ELSE [board |-> knowledge'[j].board, weight |-> 0]
                    learned == /\ before.board \in LearnedCodes
                               /\ FirstEntry(knowledge', before.board) = j
                IN  /\ knowledge'[j].board = before.board
                    /\ knowledge'[j].weight =
                          IF learned
                          THEN Saturate(before.weight + Delta(outcome))
                          ELSE before.weight
                    /\ j > Len(knowledge) => learned]_vars

\* The codes of the round, in the order of play, that the table has no
\* entry for and has room for.
CreatedCodes ==
    {CodeAfter(i) : i \in
        {i \in ComputerIndices :
            /\ CodeAfter(i) \in AbsentCodes
            /\ Len(knowledge) + Cardinality({k \in ComputerIndices :
                   k <= i /\ CodeAfter(k) \in AbsentCodes}) <= MAX_KNOWLEDGE}}

\* C12: with MAX_KNOWLEDGE entries in the table and the code absent,
\* find_or_create returns -1 and the table as it was; update_knowledge
\* leaves out that position only, creating the entries there is room for
\* and changing the weight of each position that has an entry; the number
\* of entries never exceeds MAX_KNOWLEDGE.
C12_FullTableSkipsOnePosition ==
    [][(pc = "call" /\ pc' = "returned") =>
          /\ Len(knowledge') <= MAX_KNOWLEDGE
          /\ Len(knowledge') = nknowledge'
          /\ \A c \in AbsentCodes :
                Len(knowledge) = MAX_KNOWLEDGE =>
                    find_or_create(knowledge, c) = [idx |-> -1, kn |-> knowledge]
          /\ Len(knowledge') = Len(knowledge) + Cardinality(CreatedCodes)
          /\ \A c \in LearnedCodes :
                FirstEntry(knowledge', c) # 0 <=>
                    (c \notin AbsentCodes \/ c \in CreatedCodes)
          /\ \A j \in 1..Len(knowledge) :
                /\ knowledge'[j].board = knowledge[j].board
                /\ knowledge'[j].weight # knowledge[j].weight <=>
                      (/\ knowledge[j].board \in LearnedCodes
                       /\ FirstEntry(knowledge, knowledge[j].board) = j)
          /\ \A j \in (Len(knowledge) + 1)..Len(knowledge') :
                /\ knowledge'[j].board \in CreatedCodes
                /\ knowledge'[j].weight = Delta(outcome)]_vars

\* C12 witness: a round of four moves won by the computer was learned on a
\* full table: the first position has no entry and got none, the second
\* one, the last entry of the table, went from weight 0 to 3.
C12_Witness ==
    /\ pc = "returned"
    /\ nmoves = 4
    /\ outcome = COMPUTER
    /\ Len(knowledge) = MAX_KNOWLEDGE
    /\ FirstEntry(knowledge, CodeAfter(1)) = 0
    /\ FirstEntry(knowledge, CodeAfter(3)) = MAX_KNOWLEDGE
    /\ knowledge[MAX_KNOWLEDGE].weight = 3

Count(b, v) == Cardinality({i \in 0..8 : b[i] = v})

\* The boards on which it is the computer's turn (the human has moved once
\* more than the computer), and the empty board.
Boards73 ==
    {b \in [0..8 -> {EMPTY, HUMAN, COMPUTER}] :
        \/ Count(b, HUMAN) - Count(b, COMPUTER) = 1
        \/ b = EmptyBoard73}

\* Entries for the boards compute_move looks up on board b.
Candidates(b) ==
    {[board |-> encode_board([b EXCEPT ![c] = COMPUTER]), weight |-> w] :
        c \in {i \in 0..8 : b[i] = EMPTY}, w \in Weights}

\* Tables of at most MaxEntries such entries, listed by ascending board
\* code; a code may occur more than once, as in a table loaded from a file.
Tables(b) ==
    {kn \in UNION {[1..n -> Candidates(b)] : n \in 0..MaxEntries} :
        \A i \in 1..(Len(kn) - 1) : kn[i].board <= kn[i + 1].board}

InitComputeMove ==
    /\ board \in Boards73
    /\ knowledge \in Tables(board)
    /\ nknowledge = Len(knowledge)
    /\ pc = "call"
    /\ ret = 0
    /\ IdleSession

CallComputeMove ==
    /\ pc = "call"
    /\ ret' = compute_move(board, knowledge)
    /\ board' = compute_move_board(board, knowledge)
    /\ pc' = "returned"
    /\ UNCHANGED vars73
    /\ UNCHANGED vars24

SpecComputeMove == InitComputeMove /\ [][CallComputeMove]_vars

EmptyCells == {c \in 0..8 : board[c] = EMPTY}

AllWeightsZero == \A c \in EmptyCells : MoveWeight(c) = 0

\* C8: on a board with an empty cell and a table in which not all candidate
\* weights are 0, compute_move returns the lowest-index empty cell among
\* those of greatest stored weight.
C8_ReturnsGreatestWeight ==
    (pc = "returned" /\ EmptyCells # {} /\ ~AllWeightsZero) =>
        /\ ret \in EmptyCells
        /\ \A c \in EmptyCells : MoveWeight(c) <= MoveWeight(ret)
        /\ \A c \in EmptyCells : MoveWeight(c) = MoveWeight(ret) => ret <= c

FallbackOrder == <<4, 0, 2, 6, 8, 1, 3, 5, 7>>

FileBytes == {0, 76, 227, 255}

\* Short files have at most this many bytes.
MaxBytes == 6

ShortFiles == UNION {[1..n -> FileBytes] : n \in 0..MaxBytes}

\* The n-th of a series of records with different codes and weights.
LongEntry(n) == [board |-> 13122 + n, weight |-> n - 101]

\* A file of n such records.
LongFile(n) ==
    [j \in 1..(3 * n) |->
        RecordBytes(LongEntry(((j - 1) \div 3) + 1))[((j - 1) % 3) + 1]]

\* Files of more records than the table has room for, of exactly as
\* many followed by two bytes, and of one fewer followed by one byte.
LongFiles ==
    { LongFile(MAX_KNOWLEDGE + 1),
      LongFile(MAX_KNOWLEDGE) \o <<1, 2>>,
      LongFile(MAX_KNOWLEDGE - 1) \o <<9>> }

\* A fresh program (globals zeroed) next to a file of any of these contents,
\* or next to none.
InitFile ==
    /\ file \in ShortFiles \cup LongFiles \cup {NoFile}
    /\ fd = -1
    /\ save_i = 0
    /\ board = EmptyBoard73
    /\ pc = "call"
    /\ ret = 0
    /\ knowledge = <<>>
    /\ nknowledge = 0
    /\ move_history = [i \in 0..8 |-> 0]
    /\ nmoves = 0
    /\ outcome = 0
    /\ rounds = 0
    /\ prev_history = <<>>
    /\ prev_outcome = -1
    /\ Idle24

\* load_knowledge("ttt.k"), called first and again after the save.
CallLoad ==
    /\ pc \in {"call", "saved"}
    /\ LET l == LoadResult(file, knowledge)
       IN  /\ knowledge' = l.knowledge
           /\ nknowledge' = Len(l.knowledge)
           /\ ret' = l.ret
    /\ pc' = IF pc = "call" THEN "loaded" ELSE "reloaded"
    /\ UNCHANGED <<board, move_history, nmoves, outcome, rounds,
                   prev_history, prev_outcome, file, fd, save_i>>
    /\ UNCHANGED vars24

\* save_knowledge("ttt.k"): creat fails, or succeeds and every write puts
\* its three bytes into the file.
CallSave ==
    /\ pc = "loaded"
    /\ \E r \in SaveOutcomes(knowledge, file, {[i \in 1..nknowledge |-> 3]}) :
          /\ file' = r.file
          /\ ret' = r.ret
    /\ pc' = "saved"
    /\ UNCHANGED <<board, knowledge, nknowledge, move_history, nmoves,
                   outcome, rounds, prev_history, prev_outcome, fd, save_i>>
    /\ UNCHANGED vars24

NextFile == CallLoad \/ CallSave

SpecFile == InitFile /\ [][NextFile]_vars

\* C14: loading the bytes save_knowledge wrote for a table of up to
\* MAX_KNOWLEDGE entries gives a table of the same number of entries with
\* the same code and weight in each, negative weights and codes above 255
\* included.
C14_SaveThenLoadIsIdentity ==
    [][(pc = "saved" /\ pc' = "reloaded" /\ ret = Len(knowledge)) =>
          /\ nknowledge' = nknowledge
          /\ ret' = nknowledge
          /\ Len(knowledge') = Len(knowledge)
          /\ \A k \in 1..Len(knowledge) :
                /\ knowledge'[k].board = knowledge[k].board
                /\ knowledge'[k].weight = knowledge[k].weight]_vars

\* C14 witness: a table of two entries, one with a negative weight and a
\* code above 255, came back from the file the save wrote.
C14_Witness ==
    /\ pc = "reloaded"
    /\ ret = 2
    /\ Len(file) = 6
    /\ Len(knowledge) = 2
    /\ \E k \in 1..2 : knowledge[k].weight < 0 /\ knowledge[k].board > 255
    /\ \E k \in 1..2 : knowledge[k].weight > 0 /\ knowledge[k].board < 256

\* The byte that holds w in two's complement.
TwosComplementByte(w) == IF w >= 0 THEN w ELSE w + 256

\* C15: for a table of n entries save_knowledge writes exactly 3n bytes, in
\* table order, with no header, length or padding: record k is the board
\* code mod 256, the board code div 256 and the weight as a two's
\* complement byte.
C15_ThreeBytesPerEntry ==
    [][(pc = "loaded" /\ pc' = "saved" /\ ret' # -1) =>
          /\ ret' = Len(knowledge)
          /\ Len(file') = 3 * Len(knowledge)
          /\ \A k \in 1..Len(knowledge) :
                /\ file'[3 * k - 2] = knowledge[k].board % 256
                /\ file'[3 * k - 1] = knowledge[k].board \div 256
                /\ file'[3 * k] = TwosComplementByte(knowledge[k].weight)]_vars

\* C15 witness: a table of two entries was saved as six bytes, the first
\* entry with code 19683 and weight -1.
C15_Witness ==
    /\ pc = "saved"
    /\ ret = 2
    /\ Len(knowledge) = 2
    /\ knowledge[1] = [board |-> 19683, weight |-> -1]
    /\ Len(file) = 6
    /\ <<file[1], file[2], file[3]>> = <<227, 76, 255>>

\* The value of the byte b read as a signed char.
SignedByte(b) == IF b < 128 THEN b ELSE b - 256

\* C16: load_knowledge on a file of L bytes gives a table of exactly
\* min(L div 3, MAX_KNOWLEDGE) entries, the first that many 3-byte records
\* of the file in order; a last record of 1 or 2 bytes and the records
\* past MAX_KNOWLEDGE are left out, and the count is returned as usual.
C16_LoadsWholeRecordsUpToCapacity ==
    [][(pc \in {"call", "saved"} /\ pc' \in {"loaded", "reloaded"}
           /\ file # NoFile) =>
          /\ Len(knowledge') = Min({Len(file) \div 3, MAX_KNOWLEDGE})
          /\ nknowledge' = Len(knowledge')
          /\ ret' = Len(knowledge')
          /\ \A k \in 1..Len(knowledge') :
                /\ knowledge'[k].board = file[3 * k - 2] + 256 * file[3 * k - 1]
                /\ knowledge'[k].weight = SignedByte(file[3 * k])]_vars

\* C16 witness: a file of MAX_KNOWLEDGE whole records and two more bytes
\* was loaded into a full table.
C16_Witness ==
    /\ pc = "loaded"
    /\ Len(file) = 3 * MAX_KNOWLEDGE + 2
    /\ Len(knowledge) = MAX_KNOWLEDGE
    /\ ret = MAX_KNOWLEDGE
    /\ knowledge[MAX_KNOWLEDGE] = LongEntry(MAX_KNOWLEDGE)

\* C17: after load_knowledge on any file every entry of the table has a
\* board code in 0..19682: a record whose 16-bit code is greater is not
\* stored.
C17_LoadedCodesAreBoards ==
    pc \in {"loaded", "reloaded"} =>
        \A k \in 1..Len(knowledge) : knowledge[k].board \in 0..19682

(***************************************************************************)
(* Both drivers                                                            *)
(***************************************************************************)

\* Either program is started.
InitDrivers == Init24 \/ Init73

NextDrivers == Next24 \/ NextRepeat

SpecDrivers == InitDrivers /\ [][NextDrivers]_vars

\* The 2024 program is the one running.
Running24 == pc \in {"choice", "loop", "won", "draw", "exit"}

\* Cells of the first mover minus cells of the second: X and O on the
\* squares 1..9 of the 2024 board, HUMAN and COMPUTER on a 1973 board.
Lead24(b) ==
    Cardinality({c \in 1..9 : b[c] = "X"}) - Cardinality({c \in 1..9 : b[c] = "O"})

Lead73(b) == Count(b, HUMAN) - Count(b, COMPUTER)

\* The board inside update_knowledge after k passes of its replay loop.
ReplayBoard(k) ==
    Replay(EmptyBoard73, knowledge, move_history, k, 0, Delta(outcome)).board

\* C20: in every state of either driver, after rejected inputs too, and in
\* every state the board passes through during the replay of
\* update_knowledge, the first mover holds as many cells as the second or
\* one more.
C20_FirstMoverLeadsByAtMostOne ==
    IF Running24
    THEN Lead24(board) \in {0, 1}
    ELSE /\ Lead73(board) \in {0, 1}
         /\ pc = "update" =>
               \A k \in 0..nmoves : Lead73(ReplayBoard(k)) \in {0, 1}

\* C20 witness: a 1973 round of nine moves has been replayed by
\* update_knowledge, which left the full board, five cells to four.
C20_Witness ==
    /\ pc = "save"
    /\ nmoves = 9
    /\ board = LineBoard(History, 9)
    /\ Lead73(board) = 1
    /\ nknowledge >= 4

\* The three rows, three columns and two diagonals of the grid, as sets of
\* cells numbered 0..8 row by row.
GridLines ==
    {{3 * r, 3 * r + 1, 3 * r + 2} : r \in 0..2}
        \cup {{c, c + 3, c + 6} : c \in 0..2}
        \cup {{0, 4, 8}, {2, 4, 6}}

\* Mark m holds a whole line of the 1973 board b.
Owns73(b, m) == \E l \in GridLines : \A c \in l : b[c] = m

\* Mark m holds a whole line of the 2024 board b, whose squares are 1..9.
Owns24(b, m) == \E l \in GridLines : \A c \in l : b[c + 1] = m

\* C21: in every state of either driver at most one mark owns a complete
\* line: no board has a line of X and a line of O at once.
C21_AtMostOneWinner ==
    IF Running24
    THEN ~(Owns24(board, "X") /\ Owns24(board, "O"))
    ELSE ~(Owns73(board, HUMAN) /\ Owns73(board, COMPUTER))

\* C21 witness: the 1973 computer has completed a line on its fourth move
\* and the human owns none.
C21_Witness ==
    /\ pc = "update"
    /\ nmoves = 8
    /\ Owns73(board, COMPUTER)
    /\ ~Owns73(board, HUMAN)

\* A human is at the prompt of either driver.
HumanToMove == pc = "human" \/ (pc = "loop" /\ current = human)

\* The step applies a move of the 1973 human: one empty cell becomes HUMAN,
\* the cell is appended to the history, nothing else on the board changes.
Accepted73 ==
    \E c \in 0..8 :
        /\ board[c] = EMPTY
        /\ board' = [board EXCEPT ![c] = HUMAN]
        /\ move_history' = [move_history EXCEPT ![nmoves] = c]
        /\ nmoves' = nmoves + 1

\* The step applies a move of the 2024 human: one square that held neither
\* mark gets the human's mark.
Accepted24 ==
    \E c \in 1..9 :
        /\ ~Marked(board, c)
        /\ board' = [board EXCEPT ![c] = human]
        /\ human' = human
        /\ pc' = "won" \/ turn' = turn + 1

\* C22: at the human's prompt an input that is out of range or names an
\* occupied cell leaves the board, the history and the turn as they were
\* (the only steps that change anything are an accepted move and the end of
\* the input), and an accepted move changes exactly one cell, from empty to
\* the human's mark.
C22_IllegalMoveChangesNothing ==
    [][HumanToMove =>
          \/ pc = "human" /\ Accepted73
          \/ pc = "loop" /\ Accepted24
          \/ /\ pc = "human"
             /\ pc' = "done"
             /\ UNCHANGED <<board, move_history, nmoves>>]_vars

\* C22 witness: the 1973 human has made a second accepted move, at a prompt
\* where the inputs for the two occupied cells and the out-of-range inputs
\* had been rejected.
C22_Witness ==
    /\ pc = "computer"
    /\ nmoves = 3
    /\ Count(board, HUMAN) = 2
    /\ Count(board, COMPUTER) = 1
    /\ board = LineBoard(History, 3)

\* No cell of the 1973 board b is empty.
Full73(b) == \A c \in 0..8 : b[c] # EMPTY

\* The round on board b is over.
Terminal73(b) == Owns73(b, HUMAN) \/ Owns73(b, COMPUTER) \/ Full73(b)

\* The outcome oc says who owns a line of b, or that b is full with no line
\* owned.
OutcomeMatches(oc, b) ==
    /\ oc = HUMAN <=> Owns73(b, HUMAN)
    /\ oc = COMPUTER <=> Owns73(b, COMPUTER)
    /\ oc = 0 <=> (Full73(b) /\ ~Owns73(b, HUMAN) /\ ~Owns73(b, COMPUTER))

\* C23: the rounds of the 1973 driver: a round starts from the empty board
\* with no move recorded; play goes on only while the board is not
\* terminal; update_knowledge is reached from a move that made the board
\* terminal, with the outcome the board shows, and is called once, after
\* which only the save and the next reset follow, no move being applied in
\* between.
C23_RoundStateMachine ==
    [][/\ pc = "newgame" =>
             pc' = "human" /\ board' = EmptyBoard73 /\ nmoves' = 0
       /\ (pc \in {"human", "computer"} /\ pc' \in {"human", "computer"}) =>
             ~Terminal73(board) /\ ~Terminal73(board')
       /\ pc' = "update" =>
             /\ pc \in {"human", "computer"}
             /\ ~Terminal73(board)
             /\ Terminal73(board')
             /\ OutcomeMatches(outcome', board')
       /\ pc = "update" =>
             /\ pc' = "save"
             /\ knowledge' =
                   update_knowledge(knowledge, move_history, nmoves, outcome).knowledge
             /\ UNCHANGED <<move_history, nmoves, outcome>>
             /\ Terminal73(board')
       /\ pc = "save" =>
             /\ pc' = "newgame"
             /\ UNCHANGED <<board, knowledge, move_history, nmoves>>]_vars

\* C23 witness: the second round of a session ended in a draw and
\* update_knowledge(0) is about to be called on the full board.
C23_Witness ==
    /\ pc = "update"
    /\ rounds = 2
    /\ outcome = 0
    /\ Full73(board)
    /\ ~Owns73(board, HUMAN)
    /\ ~Owns73(board, COMPUTER)

\* C24: when update_knowledge has returned the move history of the round
\* is empty: the move count is 0.
C24_HistoryClearedAfterUpdate ==
    pc \in {"save", "newgame"} => nmoves = 0

\* C24 as the code has it: update_knowledge leaves the move count as it
\* was, and main sets it to 0 when the next round starts, before any move
\* is recorded; so what update_knowledge replays is the moves of the round
\* just played and of no earlier one.
C24_HistoryClearedAtRoundStart ==
    [][/\ pc = "update" =>
             /\ nmoves' = nmoves
             /\ nmoves > 0
             /\ board = LineBoard(History, nmoves)
             /\ \A c \in 0..8 :
                   board[c] # EMPTY <=> \E i \in 0..(nmoves - 1) : move_history[i] = c
       /\ pc = "newgame" => nmoves' = 0
       /\ (pc = "human" /\ pc' \in {"computer", "update"}) =>
             /\ nmoves' = nmoves + 1
             /\ nmoves = Count(board, HUMAN) + Count(board, COMPUTER)]_vars

\* C24 witness: the second round of a session, five moves recorded from
\* index 0 on after the reset, is about to be learned.
C24_Witness ==
    /\ pc = "update"
    /\ rounds = 2
    /\ nmoves = 5
    /\ Len(prev_history) = 5
    /\ board = LineBoard(History, 5)

(***************************************************************************)
(* check_winner and check_win applied to enumerated boards                 *)
(***************************************************************************)

\* The 1973 boards of alternate play: the human has as many cells as the
\* computer or one more, and at most one of them owns a line.
PlayBoards73 ==
    {b \in [0..8 -> {EMPTY, HUMAN, COMPUTER}] :
        /\ Lead73(b) \in {0, 1}
        /\ ~(Owns73(b, HUMAN) /\ Owns73(b, COMPUTER))}

\* The same for the 2024 program: marks on the squares 1..8, the NUL at
\* index 9, a blank at index 0.
PlayBoards24 ==
    {b \in [0..9 -> {" ", "X", "O", NUL}] :
        /\ b[0] = " "
        /\ b[9] = NUL
        /\ \A c \in 1..8 : b[c] # NUL
        /\ Lead24(b) \in {0, 1}
        /\ ~(Owns24(b, "X") /\ Owns24(b, "O"))}

InitWinner ==
    /\ \/ board \in PlayBoards73 /\ pc = "call check_winner"
       \/ board \in PlayBoards24 /\ pc = "call check_win"
    /\ ret = 0
    /\ knowledge = <<>>
    /\ nknowledge = 0
    /\ IdleSession

\* winner = check_winner()
CallCheckWinner ==
    /\ pc = "call check_winner"
    /\ ret' = check_winner(board)
    /\ pc' = "check_winner returned"
    /\ UNCHANGED board
    /\ UNCHANGED vars73
    /\ UNCHANGED vars24

\* check_win(player) for either mark; ret is <<player, result>>.
CallCheckWin ==
    /\ pc = "call check_win"
    /\ \E player \in {"X", "O"} : ret' = <<player, check_win(board, player)>>
    /\ pc' = "check_win returned"
    /\ UNCHANGED board
    /\ UNCHANGED vars73
    /\ UNCHANGED vars24

NextWinner == CallCheckWinner \/ CallCheckWin

SpecWinner == InitWinner /\ [][NextWinner]_vars

\* C25: check_winner returns the mark m (not 0) exactly when one of the 8
\* lines has its three cells equal to m, and 0 exactly when no line is held
\* by one mark; check_win(player) is true exactly when a line is held by
\* player.
C25_WinnerIsLineOwner ==
    /\ pc = "check_winner returned" =>
          /\ ret \in {0, HUMAN, COMPUTER}
          /\ \A m \in {HUMAN, COMPUTER} : ret = m <=> Owns73(board, m)
          /\ ret = 0 <=> ~(Owns73(board, HUMAN) \/ Owns73(board, COMPUTER))
    /\ pc = "check_win returned" =>
          (ret[2] <=> Owns24(board, ret[1]))

\* C25 witness: check_winner returned COMPUTER for a board whose only
\* complete line is the diagonal 2, 4, 6.
C25_Witness ==
    /\ pc = "check_winner returned"
    /\ ret = COMPUTER
    /\ \A l \in GridLines : (\A c \in l : board[c] = COMPUTER) <=> l = {2, 4, 6}

\* C26: whenever main calls best_move a square holds neither mark, then
\* best_move returns a square in 1..9 that holds neither mark; it returns 0
\* only when all nine squares are marked, which does not happen at a call;
\* so the computer never writes board[0] and never overwrites a mark.
C26_BestMoveReturnsEmptySquare ==
    /\ board[0] = " "
    /\ ComputerToMove =>
          LET move == best_move(board, current, Other(current))
          IN  /\ \E c \in 1..9 : ~Marked(board, c)
              /\ move \in 1..9
              /\ ~Marked(board, move)

\* C27: compute_move leaves the board, the table (entries and count) and
\* the move history as they were at the call, for every board and table:
\* each mark it tries is taken off again and the lookups create no entry.
C27_ComputeMoveChangesNothing ==
    [][(pc = "call" /\ pc' = "returned") =>
          /\ board' = board
          /\ knowledge' = knowledge
          /\ nknowledge' = nknowledge
          /\ move_history' = move_history
          /\ nmoves' = nmoves]_vars

\* C27 witness: compute_move has returned a cell on a board with four empty
\* cells, each of them tried, with two entries in the table, one of which
\* is for the returned cell.
C27_Witness ==
    /\ pc = "returned"
    /\ Cardinality(EmptyCells) = 4
    /\ Len(knowledge) = 2
    /\ ret \in EmptyCells
    /\ MoveWeight(ret) = 3

(***************************************************************************)
(* load_knowledge and save_knowledge step by step, with the file handle    *)
(***************************************************************************)

\* A fresh program about to call load_knowledge on a short file or on none.
InitHandle ==
    /\ file \in ShortFiles \cup {NoFile}
    /\ fd = -1
    /\ save_i = 0
    /\ board = EmptyBoard73
    /\ pc = "load open"
    /\ ret = 0
    /\ knowledge = <<>>
    /\ nknowledge = 0
    /\ move_history = [i \in 0..8 |-> 0]
    /\ nmoves = 0
    /\ outcome = 0
    /\ rounds = 0
    /\ prev_history = <<>>
    /\ prev_outcome = -1
    /\ Idle24

\* load_knowledge, lines 258-261: open; on failure return 0, else
\* nknowledge = 0.
LoadOpen ==
    /\ pc = "load open"
    /\ IF file = NoFile
       THEN /\ pc' = "load returned"
            /\ ret' = 0
            /\ UNCHANGED <<fd, knowledge, nknowledge>>
       ELSE /\ pc' = "load read"
            /\ fd' = 3
            /\ knowledge' = <<>>
            /\ nknowledge' = 0
            /\ ret' = ret
    /\ UNCHANGED <<board, move_history, nmoves, outcome, rounds,
                   prev_history, prev_outcome, file, save_i>>
    /\ UNCHANGED vars24

\* What read(fd, buf, 3) can return with n bytes left in the file: the
\* bytes there are, at most 3, or -1 on an error.
ReadResults(n) == {Min({3, n}), -1}

\* load_knowledge, lines 262-266: one evaluation of the loop condition and,
\* if it holds, one pass of the body.  Every pass so far has read 3 bytes.
LoadRead ==
    /\ pc = "load read"
    /\ \E r \in ReadResults(Len(file) - 3 * nknowledge) :
          IF r = 3 /\ nknowledge < MAX_KNOWLEDGE
          THEN /\ knowledge' = Append(knowledge, LoadEntry(file, nknowledge))
               /\ nknowledge' = nknowledge + 1
               /\ pc' = pc
          ELSE /\ pc' = "load close"
               /\ UNCHANGED <<knowledge, nknowledge>>
    /\ UNCHANGED <<board, move_history, nmoves, outcome, ret, rounds,
                   prev_history, prev_outcome, file, fd, save_i>>
    /\ UNCHANGED vars24

\* load_knowledge, lines 269-270: close(fd); return nknowledge.
LoadClose ==
    /\ pc = "load close"
    /\ fd' = -1
    /\ ret' = nknowledge
    /\ pc' = "load returned"
    /\ UNCHANGED <<board, knowledge, nknowledge, move_history, nmoves,
                   outcome, rounds, prev_history, prev_outcome, file, save_i>>
    /\ UNCHANGED vars24

\* save_knowledge, lines 283-285: creat; on failure return -1.
SaveCreat ==
    /\ pc = "load returned"
    /\ \E created \in BOOLEAN :
          IF created
          THEN /\ fd' = 3
               /\ file' = <<>>
               /\ save_i' = 0
               /\ pc' = "save write"
               /\ ret' = ret
          ELSE /\ pc' = "save returned"
               /\ ret' = -1
               /\ UNCHANGED <<fd, file, save_i>>
    /\ UNCHANGED <<board, knowledge, nknowledge, move_history, nmoves,
                   outcome, rounds, prev_history, prev_outcome>>
    /\ UNCHANGED vars24

\* A write loop that returns -1 at once when a write fails.
SaveWriteGivesUp ==
    /\ pc = "save write"
    /\ save_i < nknowledge
    /\ \E n \in {0, 3} :
          IF n = 3
          THEN /\ file' = file \o RecordBytes(knowledge[save_i + 1])
               /\ save_i' = save_i + 1
               /\ UNCHANGED <<pc, ret>>
          ELSE /\ pc' = "save returned"
               /\ ret' = -1
               /\ UNCHANGED <<file, save_i>>
    /\ UNCHANGED <<board, knowledge, nknowledge, move_history, nmoves,
                   outcome, rounds, prev_history, prev_outcome, fd>>
    /\ UNCHANGED vars24

\* save_knowledge, lines 287-292: one pass of the loop; the write puts its
\* 3 bytes into the file or none, and its result is not looked at.
SaveWrite ==
    /\ pc = "save write"
    /\ save_i < nknowledge
    /\ \E n \in {0, 3} :
          file' = file \o SubSeq(RecordBytes(knowledge[save_i + 1]), 1, n)
    /\ save_i' = save_i + 1
    /\ UNCHANGED <<board, pc, knowledge, nknowledge, move_history, nmoves,
                   outcome, ret, rounds, prev_history, prev_outcome, fd>>
    /\ UNCHANGED vars24

\* save_knowledge, lines 287 and 294-295: the loop ends; close(fd); return
\* nknowledge.
SaveClose ==
    /\ pc = "save write"
    /\ save_i >= nknowledge
    /\ fd' = -1
    /\ ret' = nknowledge
    /\ pc' = "save returned"
    /\ UNCHANGED <<board, knowledge, nknowledge, move_history, nmoves,
                   outcome, rounds, prev_history, prev_outcome, file, save_i>>
    /\ UNCHANGED vars24

NextHandle ==
    LoadOpen \/ LoadRead \/ LoadClose \/ SaveCreat \/ SaveWrite \/ SaveClose

SpecHandle == InitHandle /\ [][NextHandle]_vars

\* C28: in load_knowledge and save_knowledge a handle that was opened is
\* closed exactly once before the function returns, whatever the reads and
\* writes did, and when the open failed nothing is read, written or closed:
\* reads, writes and the close happen with the handle open, the handle is
\* given up only by the close, and at every return no handle is open.
C28_OpenedHandleIsClosedOnce ==
    [][/\ pc' \in {"load read", "load close", "save write"} => fd' = 3
       /\ pc' \in {"load returned", "save returned"} => fd' = -1
       /\ (fd = 3 /\ fd' # 3) =>
             \/ pc = "load close"
             \/ pc = "save write" /\ save_i >= nknowledge
       /\ (fd = -1 /\ fd' = -1) =>
             /\ pc \in {"load open", "load returned"}
             /\ pc' \in {"load returned", "save returned"}
             /\ UNCHANGED <<file, knowledge, nknowledge>>]_vars

\* C28 witness: save_knowledge has returned 2 with the handle closed after
\* one of its two writes failed.
C28_Witness ==
    /\ pc = "save returned"
    /\ fd = -1
    /\ ret = 2
    /\ nknowledge = 2
    /\ Len(file) = 3

\* The number of cells of the board that are not empty.
MarkCount(b) == Cardinality({c \in 0..8 : b[c] # EMPTY})

\* The empty board after the first k recorded moves, even indices as the
\* human and odd indices as the computer.
RECURSIVE Replayed(_)
Replayed(k) ==
    IF k = 0 THEN EmptyBoard73
    ELSE [Replayed(k - 1) EXCEPT ![move_history[k - 1]] =
              IF (k - 1) % 2 = 0 THEN HUMAN ELSE COMPUTER]

\* C29: in every state of a round of the 1973 program outside
\* update_knowledge (at the human's prompt, before the computer's move, and
\* when the round has just ended), nmoves is the number of non-empty cells
\* and at most 9, the recorded positions are pairwise distinct, and replaying
\* them from the empty board, even indices as the human and odd ones as the
\* computer, gives the current board.
C29_HistoryMatchesBoard ==
    pc \in {"human", "computer", "update"} =>
        /\ nmoves = MarkCount(board)
        /\ nmoves <= 9
        /\ \A i, j \in 0..(nmoves - 1) :
              i # j => move_history[i] # move_history[j]
        /\ Replayed(nmoves) = board

\* C29 witness: a round that ended in a draw with all nine moves recorded.
C29_Witness ==
    /\ pc = "update"
    /\ nmoves = 9
    /\ outcome = 0
    /\ MarkCount(board) = 9
    /\ Replayed(9) = board

\* C30: update_knowledge starts its replay from the cleared board and, for
\* every position at which a round of the session ends, the board when it
\* returns is cell for cell the board when it was called, which is the
\* replay of the whole history.
C30_UpdateRestoresBoard ==
    [][pc = "update" =>
          /\ ReplayBoard(0) = EmptyBoard73
          /\ board' = ReplayBoard(nmoves)
          /\ \A c \in 0..8 : board'[c] = board[c]]_vars

\* C30 witness: update_knowledge has returned after a round the computer
\* won with its fourth move, and the winning line is on the board.
C30_Witness ==
    /\ pc = "save"
    /\ nmoves = 8
    /\ outcome = COMPUTER
    /\ Owns73(board, COMPUTER)
    /\ Len(knowledge) > 0

\* C31: whenever the 1973 driver is about to call compute_move the board has
\* an empty cell, compute_move returns an empty cell of it for the table the
\* program holds and, on the boards of a first round, for every table of at
\* most two entries on the positions it looks up, and the step the driver
\* takes records a move: the value is never negative and the round does not
\* end as a human win.
C31_ComputerNeverConcedes ==
    [][pc = "computer" =>
          /\ EmptyCells # {}
          /\ compute_move(board, knowledge) \in EmptyCells
          /\ rounds = 1 =>
                \A kn \in {t \in Tables(board) : Len(t) <= 2} :
                    compute_move(board, kn) \in EmptyCells
          /\ ret' \in EmptyCells
          /\ nmoves' = nmoves + 1
          /\ board'[ret'] = COMPUTER
          /\ ~(pc' = "update" /\ outcome' = HUMAN)]_vars

\* C31 witness: the computer has made its fourth move of a round, called
\* with two cells left, and the round goes on with one empty cell.
C31_Witness ==
    /\ pc = "human"
    /\ nmoves = 8
    /\ ret = move_history[7]
    /\ board[ret] = COMPUTER
    /\ Cardinality(EmptyCells) = 1
    /\ Len(knowledge) > 0

(***************************************************************************)
(* One round of either driver with a human who keeps answering             *)
(***************************************************************************)

\* main, lines 335-361 of the 1973 program: the human types anything.
HumanFree73 == HumanTurn(Inputs73)

\* main, lines 326-328: the first round of the session starts.
FirstGame == rounds = 0 /\ NewGame

\* Either program with input that does not end: the 2024 program, and the
\* 1973 program up to the end of its first round and the save after it.
NextFair ==
    \/ Next24
    \/ AnswerNo \/ AnswerYes \/ FirstGame \/ HumanFree73 \/ ComputerMove73
    \/ UpdateAndRecord \/ SaveKnowledge

\* The step in which the human's input is accepted: main writes the human's
\* mark into the cell typed (line 134 of the 2024 program, line 346 of the
\* 1973 program).
HumanAccepted ==
    \/ /\ pc = "loop"
       /\ current = human
       /\ \E move \in Inputs24 :
             /\ ~(move < 1 \/ move > 9 \/ board[move] # " ")
             /\ board' = [board EXCEPT ![move] = human]
    \/ /\ pc = "human"
       /\ \E move \in Inputs73 :
             /\ ~IllegalMove(board, move)
             /\ board' = [board EXCEPT ![move] = HUMAN]

\* The step in which the computer's turn is carried out: the loop of the
\* 2024 program goes on to the next turn or ends with a win, the 1973
\* program goes back to the prompt or ends the round.
ComputerTurnDone ==
    \/ /\ pc = "loop"
       /\ current # human
       /\ pc' \in {"loop", "won", "draw"}
       /\ turn' \in {turn, turn + 1}
       /\ turn' = turn <=> pc' = "won"
    \/ /\ pc = "computer"
       /\ pc' \in {"human", "update"}
       /\ turn' = turn

\* The programs run on: the computer's turn is code that executes, and at
\* a prompt the human eventually types a move that is accepted, if there
\* is one.
SpecFair ==
    /\ InitDrivers
    /\ [][NextFair]_vars
    /\ WF_<<pc, turn>>(ComputerTurnDone)
    /\ SF_board(HumanAccepted)

\* A round is being played.
InRound == pc \in {"loop", "human", "computer"}

\* A round has ended in a win or a draw.
RoundOver == pc \in {"won", "draw", "update"}

\* C32: a human who eventually enters a legal move at each prompt being
\* assumed, every round of both drivers reaches a win or a draw, and no
\* round has more than 9 accepted moves.
C32_EveryRoundEnds ==
    /\ [](turn <= 9 /\ nmoves <= 9)
    /\ InRound ~> RoundOver

====
